---- MODULE Spec2Model ----
(***************************************************************************)
(* Plasma Treatment System HMI (src/main.py): the status model, the serial *)
(* interface and the main window's handlers, as a state machine.           *)
(*                                                                         *)
(* Text is modelled as TLA+ strings; str.upper, str.strip and the `in`     *)
(* substring test are computed character by character.                     *)
(***************************************************************************)
EXTENDS Naturals, Sequences, FiniteSets, TLC

VARIABLES
    status,            \* SystemStatus: process_state, estop_active, plasma_on, dropout_states
    arduino,           \* ArduinoInterface: serial_port, connected
    serial_reader,     \* HMIMainWindow.serial_reader: "None", or where its thread is:
                       \* "running" (at the loop test), "reading" (in the try block), "finished"
    current_mode,      \* HMIMainWindow.current_mode
    selected_dropout,  \* HMIMainWindow.selected_dropout
    control_layout,    \* the buttons currently held by HMIMainWindow.control_layout
    auto_radio,        \* auto_radio.isChecked() of the mode radios of the panel
    dropout_checked,   \* the checked radio of dropout_button_group ("None": no manual panel)
    last,              \* observation: the handler that ran last and what it did
    auto_session,      \* history: an auto treatment was started and not yet ended
    applied,           \* history: the lines given to update_from_serial, in order
    running,           \* SerialReader.running (FALSE when there is no reader)
    events,            \* the primary thread's queue of signals emitted by the reader
    emitted,           \* history: the lines the reader emitted, in order
    closing,           \* closeEvent: "open", "waiting" (in wait()), "closed"
    buffer,            \* SerialReader.run: its local `buffer` (SpecFraming)
    received           \* history: the text read from the port so far (SpecFraming)

vars == <<status, arduino, serial_reader, current_mode, selected_dropout,
          control_layout, auto_radio, dropout_checked, last, auto_session, applied,
          running, events, emitted, closing, buffer, received>>

FramingVars == <<buffer, received>>

ThreadVars == <<running, events, emitted, closing, FramingVars>>

(***************************************************************************)
(* Bounds                                                                  *)
(***************************************************************************)
MaxLines == 2

\* The number of lines the reader thread emits in a run of SpecThreads
MaxEmitted == 2

\* The length of the text the port delivers in a run of SpecFraming, and the
\* length of what one read returns
MaxStream == 4

MaxChunk == 2

(***************************************************************************)
(* Text: str.upper, str.strip, substring test                              *)
(***************************************************************************)
LowerLetters == "abcdefghijklmnopqrstuvwxyz"

UpperLetters == "ABCDEFGHIJKLMNOPQRSTUVWXYZ"

Whitespace == {" ", "\t", "\r", "\n"}

CharAt(s, i) == SubSeq(s, i, i)

\* The upper-case letter of each lower-case letter
UpperOf ==
    [c \in {CharAt(LowerLetters, i) : i \in 1..Len(LowerLetters)} |->
        CharAt(UpperLetters, CHOOSE i \in 1..Len(LowerLetters) : CharAt(LowerLetters, i) = c)]

UpperChar(c) == IF c \in DOMAIN UpperOf THEN UpperOf[c] ELSE c

RECURSIVE Upper(_)
Upper(s) ==
    IF Len(s) = 0 THEN ""
    ELSE UpperChar(CharAt(s, 1)) \o Upper(SubSeq(s, 2, Len(s)))

RECURSIVE LStrip(_)
LStrip(s) ==
    IF Len(s) > 0 /\ CharAt(s, 1) \in Whitespace
    THEN LStrip(SubSeq(s, 2, Len(s)))
    ELSE s

RECURSIVE RStrip(_)
RStrip(s) ==
    IF Len(s) > 0 /\ CharAt(s, Len(s)) \in Whitespace
    THEN RStrip(SubSeq(s, 1, Len(s) - 1))
    ELSE s

Strip(s) == RStrip(LStrip(s))

Contains(sub, s) ==
    \E i \in 1..Len(s) :
        /\ i + Len(sub) - 1 <= Len(s)
        /\ SubSeq(s, i, i + Len(sub) - 1) = sub

(***************************************************************************)
(* SystemStatus                                                            *)
(***************************************************************************)
ProcessStates == {"OFF", "LOADING", "READY", "TREATING", "UNLOADING", "DROPPING", "RETURNING"}

SystemStatusInit ==
    [process_state |-> "OFF",
     estop_active |-> FALSE,
     plasma_on |-> FALSE,
     dropout_states |-> <<"NONE", "NONE", "NONE", "NONE">>]

NormalizeLine(line) == Strip(Upper(line))

\* Mutant: the process-state match without upper-casing (case-sensitive)
update_from_serial_case_sensitive(st, line) ==
    LET l == NormalizeLine(line) IN
    IF Strip(line) \in ProcessStates THEN [st EXCEPT !.process_state = l]
    ELSE IF Contains("ESTOP ACTIVE", l) THEN [st EXCEPT !.estop_active = TRUE]
    ELSE IF Contains("ESTOP NOT ACTIVE", l) THEN [st EXCEPT !.estop_active = FALSE]
    ELSE IF Contains("ESTOP", l) THEN [st EXCEPT !.estop_active = TRUE]
    ELSE st

\* Mutant: the fail-safe e-stop match on "STOP" instead of "ESTOP"
update_from_serial_stop(st, line) ==
    LET l == NormalizeLine(line) IN
    IF l \in ProcessStates THEN [st EXCEPT !.process_state = l]
    ELSE IF Contains("ESTOP ACTIVE", l) THEN [st EXCEPT !.estop_active = TRUE]
    ELSE IF Contains("ESTOP NOT ACTIVE", l) THEN [st EXCEPT !.estop_active = FALSE]
    ELSE IF Contains("STOP", l) THEN [st EXCEPT !.estop_active = TRUE]
    ELSE st

\* Mutant: a reported OFF also clears the e-stop flag
update_from_serial_off_clears(st, line) ==
    LET l == NormalizeLine(line) IN
    IF l \in ProcessStates
    THEN [st EXCEPT !.process_state = l,
                    !.estop_active = IF l = "OFF" THEN FALSE ELSE @]
    ELSE IF Contains("ESTOP ACTIVE", l) THEN [st EXCEPT !.estop_active = TRUE]
    ELSE IF Contains("ESTOP NOT ACTIVE", l) THEN [st EXCEPT !.estop_active = FALSE]
    ELSE IF Contains("ESTOP", l) THEN [st EXCEPT !.estop_active = TRUE]
    ELSE st

\* Mutant: ESTOP NOT ACTIVE is tested before ESTOP ACTIVE
update_from_serial_not_active_first(st, line) ==
    LET l == NormalizeLine(line) IN
    IF l \in ProcessStates THEN [st EXCEPT !.process_state = l]
    ELSE IF Contains("ESTOP NOT ACTIVE", l) THEN [st EXCEPT !.estop_active = FALSE]
    ELSE IF Contains("ESTOP ACTIVE", l) THEN [st EXCEPT !.estop_active = TRUE]
    ELSE IF Contains("ESTOP", l) THEN [st EXCEPT !.estop_active = TRUE]
    ELSE st

update_from_serial(st, line) ==
    LET l == NormalizeLine(line) IN
    IF l \in ProcessStates THEN [st EXCEPT !.process_state = l]
    ELSE IF Contains("ESTOP ACTIVE", l) THEN [st EXCEPT !.estop_active = TRUE]
    ELSE IF Contains("ESTOP NOT ACTIVE", l) THEN [st EXCEPT !.estop_active = FALSE]
    ELSE IF Contains("ESTOP", l) THEN [st EXCEPT !.estop_active = TRUE]
    ELSE st

(***************************************************************************)
(* ArduinoInterface                                                        *)
(***************************************************************************)
\* connect(): a port was opened, or none was found
ArduinoConnected == [serial_port |-> "open", connected |-> TRUE]

ArduinoNotFound == [serial_port |-> "None", connected |-> FALSE]

\* send_command(command); `raises`: serial_port.write raises (the environment's choice).
\* The result holds the interface afterwards, what was written to the port and
\* the return value.
\* Mutant: the guard tests only that a port object exists, not `connected`
send_command_port_only(a, command, raises) ==
    IF a.serial_port = "None"
    THEN [arduino |-> a, written |-> <<>>, ret |-> FALSE]
    ELSE IF a.serial_port # "open"
    THEN [arduino |-> a, written |-> <<>>, ret |-> FALSE]
    ELSE IF raises
    THEN [arduino |-> [a EXCEPT !.connected = FALSE], written |-> <<>>, ret |-> FALSE]
    ELSE [arduino |-> a, written |-> <<command>>, ret |-> TRUE]

send_command(a, command, raises) ==
    IF ~a.connected \/ a.serial_port = "None"
    THEN [arduino |-> a, written |-> <<>>, ret |-> FALSE]
    ELSE IF a.serial_port # "open"
    THEN [arduino |-> a, written |-> <<>>, ret |-> FALSE]
    ELSE IF raises
    THEN [arduino |-> [a EXCEPT !.connected = FALSE], written |-> <<>>, ret |-> FALSE]
    ELSE [arduino |-> a, written |-> <<command>>, ret |-> TRUE]

(***************************************************************************)
(* HMIMainWindow: the widgets                                              *)
(***************************************************************************)
DropoutOptions == {"ALL", "1", "2", "3", "4"}

\* Mutant: the e-stop button is not put in the title bar
TitleBar_without_estop == {}

\* init_ui: the title bar's button, outside control_layout
TitleBar == {"estop_btn"}

ModeRadios == {"auto_radio", "manual_radio"}

\* Mutant: the LOADING controls without the Exit Process button
ProcessControls_no_exit(process_state) ==
    IF process_state = "OFF" THEN {"btn_begin"}
    ELSE IF process_state = "LOADING" THEN {"btn_loaded"}
    ELSE IF process_state = "READY" THEN {"btn_start"}
    ELSE IF process_state = "UNLOADING" THEN {"btn_unloaded"}
    ELSE {}

ProcessControls(process_state) ==
    IF process_state = "OFF" THEN {"btn_begin"}
    ELSE IF process_state = "LOADING" THEN {"btn_loaded", "btn_exit"}
    ELSE IF process_state = "READY" THEN {"btn_start"}
    ELSE IF process_state = "UNLOADING" THEN {"btn_unloaded"}
    ELSE {}

\* Mutant: the Reset System button is left out while the process runs
create_auto_mode_controls_no_reset(process_state, selected) ==
    [layout |-> ModeRadios \cup ProcessControls(process_state)
                  \cup (IF ProcessControls(process_state) = {} THEN {} ELSE {"reset_btn"}),
     auto_radio |-> TRUE,
     dropout_checked |-> "None",
     selected_dropout |-> selected]

\* create_auto_mode_controls: the panel it builds. auto_radio is checked before
\* its signal is connected; selected_dropout is not touched.
create_auto_mode_controls(process_state, selected) ==
    [layout |-> ModeRadios \cup ProcessControls(process_state) \cup {"reset_btn"},
     auto_radio |-> TRUE,
     dropout_checked |-> "None",
     selected_dropout |-> selected]

\* Mutant: the "ALL" radio is checked before its toggled signal is connected, so
\* selected_dropout keeps the earlier selection
create_manual_mode_controls_keep_selection(process_state, selected) ==
    [layout |-> ModeRadios \cup {"radio_" \o o : o \in DropoutOptions}
                  \cup {"btn_up", "btn_load", "btn_down"}
                  \cup {"btn_plasma_on", "btn_plasma_off"} \cup {"reset_btn"},
     auto_radio |-> FALSE,
     dropout_checked |-> "ALL",
     selected_dropout |-> selected]

\* create_manual_mode_controls: the "ALL" radio is checked after its toggled
\* signal is connected, so dropout_selection_changed("ALL", True) runs.
create_manual_mode_controls(process_state, selected) ==
    [layout |-> ModeRadios \cup {"radio_" \o o : o \in DropoutOptions}
                  \cup {"btn_up", "btn_load", "btn_down"}
                  \cup {"btn_plasma_on", "btn_plasma_off"} \cup {"reset_btn"},
     auto_radio |-> FALSE,
     dropout_checked |-> "ALL",
     selected_dropout |-> "ALL"]

\* update_control_panel: clears control_layout and rebuilds it for the mode
update_control_panel(mode, process_state, selected) ==
    IF mode = "AUTO"
    THEN create_auto_mode_controls(process_state, selected)
    ELSE create_manual_mode_controls(process_state, selected)

Buttons == TitleBar \cup control_layout

Obs(op, arg, conn, issued, written, notice) ==
    [op |-> op, arg |-> arg, conn |-> conn, issued |-> issued,
     written |-> written, notice |-> notice]

SetPanel(p) ==
    /\ control_layout' = p.layout
    /\ auto_radio' = p.auto_radio
    /\ dropout_checked' = p.dropout_checked
    /\ selected_dropout' = p.selected_dropout

PanelVars == <<control_layout, auto_radio, dropout_checked, selected_dropout>>

(***************************************************************************)
(* HMIMainWindow.__init__                                                  *)
(***************************************************************************)
Init ==
    /\ arduino \in {ArduinoConnected, ArduinoNotFound}
    /\ status = SystemStatusInit
    /\ serial_reader = (IF arduino.connected /\ arduino.serial_port # "None"
                        THEN "running" ELSE "None")
    /\ current_mode = "AUTO"
    /\ LET p == update_control_panel("AUTO", SystemStatusInit.process_state, "ALL") IN
         /\ control_layout = p.layout
         /\ auto_radio = p.auto_radio
         /\ dropout_checked = p.dropout_checked
         /\ selected_dropout = p.selected_dropout
    /\ last = Obs("__init__", "", arduino.connected, <<>>, <<>>, "")
    /\ auto_session = FALSE
    /\ applied = <<>>
    /\ running = (serial_reader # "None")
    /\ events = <<>>
    /\ emitted = <<>>
    /\ closing = "open"
    /\ buffer = ""
    /\ received = ""

(***************************************************************************)
(* HMIMainWindow: the handlers (primary thread)                            *)
(***************************************************************************)
\* A handler whose body is one self.arduino.send_command(command)
SendOne(op, command, raises) ==
    LET r == send_command(arduino, command, raises) IN
    /\ arduino' = r.arduino
    /\ last' = Obs(op, "", arduino.connected, <<command>>, r.written, "")

\* Mutant: the handler sends without looking at `connected` and shows no dialog
SendOrWarn_silent(op, command, raises) == SendOne(op, command, raises)

\* A handler that refuses with a "Not Connected" dialog before sending
SendOrWarn(op, command, raises) ==
    IF ~arduino.connected
    THEN /\ last' = Obs(op, "", arduino.connected, <<>>, <<>>, "Not Connected")
         /\ UNCHANGED arduino
    ELSE SendOne(op, command, raises)

EstopOffered == "estop_btn" \in Buttons

trigger_estop(raises) ==
    /\ EstopOffered
    /\ SendOne("trigger_estop", "e_stop", raises)
    /\ UNCHANGED <<status, serial_reader, current_mode, PanelVars, auto_session, applied, ThreadVars>>

TriggerEstop == \E raises \in BOOLEAN : trigger_estop(raises)

BeginOffered == "btn_begin" \in Buttons

begin_auto_treatment(raises) ==
    /\ BeginOffered
    /\ SendOrWarn("begin_auto_treatment", "start_process_sm", raises)
    /\ auto_session' = (auto_session \/ last'.written = <<"start_process_sm">>)
    /\ UNCHANGED <<status, serial_reader, current_mode, PanelVars, applied, ThreadVars>>

BeginAutoTreatment == \E raises \in BOOLEAN : begin_auto_treatment(raises)

exit_process(raises) ==
    /\ "btn_exit" \in Buttons
    /\ SendOne("exit_process", "off", raises)
    /\ auto_session' = FALSE
    /\ UNCHANGED <<status, serial_reader, current_mode, PanelVars, applied, ThreadVars>>

ExitProcess == \E raises \in BOOLEAN : exit_process(raises)

reset_system(raises) ==
    /\ "reset_btn" \in Buttons
    /\ SendOne("reset_system", "reset", raises)
    /\ auto_session' = FALSE
    /\ UNCHANGED <<status, serial_reader, current_mode, PanelVars, applied, ThreadVars>>

ResetSystem == \E raises \in BOOLEAN : reset_system(raises)

\* f"{self.selected_dropout}_up" and its "ALL" branch
JogCommand(selected, action) ==
    IF selected = "ALL" THEN "all_" \o action ELSE selected \o "_" \o action

JogOffered(action) == ("btn_" \o action) \in Buttons

command_jog(action, raises) ==
    /\ JogOffered(action)
    /\ SendOrWarn("command_" \o action, JogCommand(selected_dropout, action), raises)
    /\ UNCHANGED <<status, serial_reader, current_mode, PanelVars, auto_session, applied, ThreadVars>>

CommandUp == \E raises \in BOOLEAN : command_jog("up", raises)

CommandLoad == \E raises \in BOOLEAN : command_jog("load", raises)

CommandDown == \E raises \in BOOLEAN : command_jog("down", raises)

\* The buttons whose clicked signal is a lambda: self.arduino.send_command(token)
LambdaButtons ==
    [btn_plasma_on |-> "plasma_on", btn_plasma_off |-> "plasma_off",
     btn_loaded |-> "part_loaded", btn_start |-> "start_treatment",
     btn_unloaded |-> "part_unloaded"]

\* Mutant: the plasma buttons also flip the status model's plasma_on
lambda_clicked_sets_plasma(btn, raises) ==
    /\ btn \in Buttons
    /\ SendOne(btn, LambdaButtons[btn], raises)
    /\ status' = IF btn = "btn_plasma_on" THEN [status EXCEPT !.plasma_on = TRUE]
                 ELSE IF btn = "btn_plasma_off" THEN [status EXCEPT !.plasma_on = FALSE]
                 ELSE status
    /\ UNCHANGED <<serial_reader, current_mode, PanelVars, auto_session, applied, ThreadVars>>

lambda_clicked(btn, raises) ==
    /\ btn \in Buttons
    /\ SendOne(btn, LambdaButtons[btn], raises)
    /\ UNCHANGED <<status, serial_reader, current_mode, PanelVars, auto_session, applied, ThreadVars>>

PlasmaOn == \E raises \in BOOLEAN : lambda_clicked("btn_plasma_on", raises)

PlasmaOff == \E raises \in BOOLEAN : lambda_clicked("btn_plasma_off", raises)

PartLoaded == \E raises \in BOOLEAN : lambda_clicked("btn_loaded", raises)

StartTreatment == \E raises \in BOOLEAN : lambda_clicked("btn_start", raises)

PartUnloaded == \E raises \in BOOLEAN : lambda_clicked("btn_unloaded", raises)

\* Mutant: the two requests in the opposite order
request_status_update_reversed(raises1, raises2) ==
    /\ IF arduino.connected
       THEN LET r1 == send_command(arduino, "get_states", raises1)
                r2 == send_command(r1.arduino, "status", raises2)
            IN /\ arduino' = r2.arduino
               /\ last' = Obs("request_status_update", "", arduino.connected,
                              <<"get_states", "status">>, r1.written \o r2.written, "")
       ELSE /\ last' = Obs("request_status_update", "", arduino.connected, <<>>, <<>>, "")
            /\ UNCHANGED arduino
    /\ UNCHANGED <<status, serial_reader, current_mode, PanelVars, auto_session, applied, ThreadVars>>

\* The status timer's slot
request_status_update(raises1, raises2) ==
    /\ IF arduino.connected
       THEN LET r1 == send_command(arduino, "status", raises1)
                r2 == send_command(r1.arduino, "get_states", raises2)
            IN /\ arduino' = r2.arduino
               /\ last' = Obs("request_status_update", "", arduino.connected,
                              <<"status", "get_states">>, r1.written \o r2.written, "")
       ELSE /\ last' = Obs("request_status_update", "", arduino.connected, <<>>, <<>>, "")
            /\ UNCHANGED arduino
    /\ UNCHANGED <<status, serial_reader, current_mode, PanelVars, auto_session, applied, ThreadVars>>

RequestStatusUpdate == \E raises1, raises2 \in BOOLEAN : request_status_update(raises1, raises2)

\* Mutant: the mode change is announced to the device
mode_changed_sends(clicked) ==
    /\ ModeRadios \subseteq control_layout
    /\ auto_radio # (clicked = "AUTO")
    /\ LET checked == (clicked = "AUTO")
           mode == IF checked THEN "AUTO" ELSE "MANUAL"
           r == send_command(arduino, IF checked THEN "auto" ELSE "manual", FALSE)
       IN /\ current_mode' = mode
          /\ SetPanel(update_control_panel(mode, status.process_state, selected_dropout))
          /\ last' = Obs("mode_changed", clicked, arduino.connected,
                         <<IF checked THEN "auto" ELSE "manual">>, r.written, "")
    /\ UNCHANGED <<status, arduino, serial_reader, auto_session, applied, ThreadVars>>

\* The operator clicks the unchecked mode radio; its toggled signal runs
\* mode_changed, which reads auto_radio.isChecked() and rebuilds the panel. (The
\* second toggled signal of the click runs it again on the rebuilt radios, with
\* the same result.)
mode_changed(clicked) ==
    /\ ModeRadios \subseteq control_layout
    /\ auto_radio # (clicked = "AUTO")
    /\ LET checked == (clicked = "AUTO")
           mode == IF checked THEN "AUTO" ELSE "MANUAL"
       IN /\ current_mode' = mode
          /\ SetPanel(update_control_panel(mode, status.process_state, selected_dropout))
          /\ last' = Obs("mode_changed", clicked, arduino.connected, <<>>, <<>>, "")
    /\ UNCHANGED <<status, arduino, serial_reader, auto_session, applied, ThreadVars>>

ModeChanged == \E clicked \in {"AUTO", "MANUAL"} : mode_changed(clicked)

\* Mutant: the radio is checked but the option is not stored
dropout_selection_changed_unstored(option) ==
    /\ ("radio_" \o option) \in control_layout
    /\ dropout_checked # option
    /\ dropout_checked' = option
    /\ last' = Obs("dropout_selection_changed", option, arduino.connected, <<>>, <<>>, "")
    /\ UNCHANGED <<status, arduino, serial_reader, current_mode, control_layout,
                   auto_radio, selected_dropout, auto_session, applied, ThreadVars>>

\* The operator clicks an unchecked dropout radio: toggled(True) of that radio
dropout_selection_changed(option) ==
    /\ ("radio_" \o option) \in control_layout
    /\ dropout_checked # option
    /\ dropout_checked' = option
    /\ selected_dropout' = option
    /\ last' = Obs("dropout_selection_changed", option, arduino.connected, <<>>, <<>>, "")
    /\ UNCHANGED <<status, arduino, serial_reader, current_mode, control_layout,
                   auto_radio, auto_session, applied, ThreadVars>>

DropoutSelectionChanged == \E option \in DropoutOptions : dropout_selection_changed(option)

\* The lines the reader thread hands over in this model: stripped and non-empty
HmiLines ==
    ProcessStates \cup {"loading", "Off", "ESTOP ACTIVE", "ESTOP NOT ACTIVE", "status ok"}

\* The body of the slot of SerialReader.data_received
apply_serial_data(line) ==
    /\ status' = update_from_serial(status, line)
    /\ IF line \in ProcessStates /\ current_mode = "AUTO"
       THEN SetPanel(update_control_panel(current_mode, status'.process_state,
                                          selected_dropout))
       ELSE UNCHANGED PanelVars
    /\ last' = Obs("handle_serial_data", line, arduino.connected, <<>>, <<>>, "")
    /\ auto_session' = (auto_session /\ NormalizeLine(line) # "OFF")
    /\ UNCHANGED <<arduino, current_mode>>

\* The slot of SerialReader.data_received, run for a line the reader hands over
handle_serial_data(line) ==
    /\ serial_reader = "running"
    /\ apply_serial_data(line)
    /\ UNCHANGED <<serial_reader, applied, ThreadVars>>

HandleSerialData == \E line \in HmiLines : handle_serial_data(line)

\* The body of the slot of SerialReader.connection_lost
handle_connection_lost ==
    /\ arduino' = [arduino EXCEPT !.connected = FALSE]
    /\ last' = Obs("handle_connection_lost", "", arduino.connected, <<>>, <<>>,
                   "Connection Lost")
    /\ UNCHANGED <<status, current_mode, PanelVars, auto_session>>

\* The reader thread's read raises: it emits connection_lost and ends; the slot
HandleConnectionLost ==
    /\ serial_reader = "running"
    /\ serial_reader' = "finished"
    /\ handle_connection_lost
    /\ UNCHANGED <<applied, ThreadVars>>

Next ==
    \/ HandleSerialData
    \/ HandleConnectionLost
    \/ ModeChanged
    \/ DropoutSelectionChanged
    \/ TriggerEstop
    \/ BeginAutoTreatment
    \/ ExitProcess
    \/ ResetSystem
    \/ CommandUp
    \/ CommandLoad
    \/ CommandDown
    \/ PlasmaOn
    \/ PlasmaOff
    \/ PartLoaded
    \/ StartTreatment
    \/ PartUnloaded
    \/ RequestStatusUpdate

Spec == Init /\ [][Next]_vars

(***************************************************************************)
(* SystemStatus.update_from_serial on sequences of lines                   *)
(***************************************************************************)
\* Every command token a handler passes to send_command
CommandTokens ==
    {"e_stop", "reset", "start_process_sm", "off", "status", "get_states"}
    \cup {LambdaButtons[b] : b \in DOMAIN LambdaButtons}
    \cup {JogCommand(o, a) : o \in DropoutOptions, a \in {"up", "load", "down"}}

\* Structured status payloads as the device may send them (a STATUS: prefix and
\* a map of optional fields)
StructuredPayloads ==
    {"STATUS:{\"estop\": true}", "STATUS:{\"estop\": false}",
     "STATUS:{\"plasma_on\": true}", "STATUS:{\"estop\": false, \"plasma_on\": true}"}

\* The lines tried on update_from_serial: the tokens in several letter cases and
\* with surrounding whitespace, near misses, e-stop phrases, other text, echoes
StatusLines ==
    ProcessStates
    \cup {"off", "loading", "Ready", "  LOADING", "treating \r", "\tOff ",
          "OFFLINE", "LOAD ING", "", "hello"}
    \cup {"ESTOP ACTIVE", "ESTOP NOT ACTIVE", "estop not active", "Warning: estop", "E-STOP",
          "ESTOP NOT ACTIVE (WAS ESTOP ACTIVE)"}
    \cup CommandTokens
    \cup StructuredPayloads

UpdateFromSerial ==
    \E line \in StatusLines :
        /\ Len(applied) < MaxLines
        /\ status' = update_from_serial(status, line)
        /\ applied' = Append(applied, line)
        /\ UNCHANGED <<arduino, serial_reader, current_mode, PanelVars, last, auto_session,
                       ThreadVars>>

NextStatus == UpdateFromSerial

SpecStatus == Init /\ [][NextStatus]_vars

(***************************************************************************)
(* The reader thread and the primary thread                                *)
(***************************************************************************)
\* ArduinoInterface.close
close(a) ==
    [serial_port |-> IF a.serial_port = "open" THEN "closed" ELSE a.serial_port,
     connected |-> FALSE]

\* The lines the device sends in SpecThreads
ThreadLines == {"LOADING", "ESTOP ACTIVE", "ESTOP NOT ACTIVE"}

\* The queued calls of the two slots
DataReceived(line) == [signal |-> "data_received", line |-> line]

ConnectionLost == [signal |-> "connection_lost", line |-> ""]

\* Mutant: the emitted signal overtakes the ones already queued
emit_overtaking(queue, signal) == <<signal>> \o queue

\* pyqtSignal.emit from the reader thread: the slot call is queued for the
\* primary thread behind the calls already queued
emit(queue, signal) == Append(queue, signal)

\* SerialReader.run: `while self.running`
run_while ==
    /\ serial_reader = "running"
    /\ serial_reader' = IF running THEN "reading" ELSE "finished"
    /\ UNCHANGED <<status, arduino, current_mode, PanelVars, last, auto_session, applied,
                   ThreadVars>>

\* SerialReader.run: a complete, non-empty line is split off the buffer and emitted
run_emit(line) ==
    /\ serial_reader = "reading"
    /\ Len(emitted) < MaxEmitted
    /\ events' = emit(events, DataReceived(line))
    /\ emitted' = Append(emitted, line)
    /\ UNCHANGED <<status, arduino, serial_reader, current_mode, PanelVars, last,
                   auto_session, applied, running, closing, FramingVars>>

RunEmit == \E line \in ThreadLines : run_emit(line)

\* SerialReader.run: the buffer holds no further line; back to the loop test
run_next ==
    /\ serial_reader = "reading"
    /\ serial_reader' = "running"
    /\ UNCHANGED <<status, arduino, current_mode, PanelVars, last, auto_session, applied,
                   ThreadVars>>

\* SerialReader.run: the read raises; connection_lost is emitted and the loop is left
run_except ==
    /\ serial_reader = "reading"
    /\ events' = emit(events, ConnectionLost)
    /\ serial_reader' = "finished"
    /\ UNCHANGED <<status, arduino, current_mode, PanelVars, last, auto_session, applied,
                   running, emitted, closing, FramingVars>>

\* The primary thread's event loop runs the queued handle_serial_data call
DeliverDataReceived ==
    /\ closing = "open"
    /\ events # <<>>
    /\ Head(events).signal = "data_received"
    /\ apply_serial_data(Head(events).line)
    /\ applied' = Append(applied, Head(events).line)
    /\ events' = Tail(events)
    /\ UNCHANGED <<serial_reader, running, emitted, closing, FramingVars>>

\* The primary thread's event loop runs the queued handle_connection_lost call
DeliverConnectionLost ==
    /\ closing = "open"
    /\ events # <<>>
    /\ Head(events).signal = "connection_lost"
    /\ handle_connection_lost
    /\ events' = Tail(events)
    /\ UNCHANGED <<serial_reader, applied, running, emitted, closing, FramingVars>>

\* The operator presses EMERGENCY STOP while the window is open
OperatorEstop == closing = "open" /\ TriggerEstop

\* The operator switches the mode while the window is open
OperatorModeChanged == closing = "open" /\ ModeChanged

\* The status timer fires while the window is open
TimerTick == closing = "open" /\ RequestStatusUpdate

\* Mutant: the port is closed without waiting for the reader thread
closeEvent_close_without_wait ==
    /\ closing = "waiting" \/ (closing = "open" /\ serial_reader = "None")
    /\ arduino' = close(arduino)
    /\ closing' = "closed"
    /\ UNCHANGED <<status, serial_reader, current_mode, PanelVars, last, auto_session,
                   applied, running, events, emitted, FramingVars>>

\* closeEvent: self.serial_reader.stop(), then the primary thread blocks in wait()
closeEvent_stop ==
    /\ closing = "open"
    /\ serial_reader # "None"
    /\ running' = FALSE
    /\ closing' = "waiting"
    /\ UNCHANGED <<status, arduino, serial_reader, current_mode, PanelVars, last,
                   auto_session, applied, events, emitted, FramingVars>>

\* closeEvent: wait() has returned (or there is no reader); self.arduino.close()
closeEvent_close ==
    /\ \/ closing = "waiting" /\ serial_reader = "finished"
       \/ closing = "open" /\ serial_reader = "None"
    /\ arduino' = close(arduino)
    /\ closing' = "closed"
    /\ UNCHANGED <<status, serial_reader, current_mode, PanelVars, last, auto_session,
                   applied, running, events, emitted, FramingVars>>

NextThreads ==
    \/ run_while
    \/ RunEmit
    \/ run_next
    \/ run_except
    \/ DeliverDataReceived
    \/ DeliverConnectionLost
    \/ OperatorEstop
    \/ OperatorModeChanged
    \/ TimerTick
    \/ closeEvent_stop
    \/ closeEvent_close

\* The reader is a thread of its own: it is scheduled again and again, and an
\* iteration of its loop ends
SpecThreads ==
    Init /\ [][NextThreads]_vars /\ WF_vars(run_while) /\ WF_vars(run_next)

(***************************************************************************)
(* SerialReader.run: framing of the incoming text                          *)
(***************************************************************************)
\* The characters the port delivers in SpecFraming
StreamChars == {"A", "B", " ", "\n"}

RECURSIVE Texts(_)
Texts(n) == IF n = 0 THEN {""} ELSE {c \o t : c \in StreamChars, t \in Texts(n - 1)}

\* What one read(in_waiting) returns: at least one character
Chunks == UNION {Texts(n) : n \in 1..MaxChunk}

\* buffer.split('\n', 1): the position of the first newline
FirstNewline(text) == CHOOSE i \in 1..Len(text) :
                          /\ CharAt(text, i) = "\n"
                          /\ \A j \in 1..(i - 1) : CharAt(text, j) # "\n"

\* Mutant: what is left after the last newline is handed over as a line too
RECURSIVE split_lines_flush(_)
split_lines_flush(text) ==
    IF ~Contains("\n", text)
    THEN [lines |-> IF Strip(text) # "" THEN <<Strip(text)>> ELSE <<>>, buffer |-> ""]
    ELSE LET i == FirstNewline(text)
             line == Strip(SubSeq(text, 1, i - 1))
             rest == split_lines_flush(SubSeq(text, i + 1, Len(text)))
         IN [lines |-> (IF line # "" THEN <<line>> ELSE <<>>) \o rest.lines,
             buffer |-> rest.buffer]

\* `while '\n' in buffer`: the lines emitted, in order, and the buffer left
RECURSIVE split_lines(_)
split_lines(text) ==
    IF ~Contains("\n", text)
    THEN [lines |-> <<>>, buffer |-> text]
    ELSE LET i == FirstNewline(text)
             line == Strip(SubSeq(text, 1, i - 1))
             rest == split_lines(SubSeq(text, i + 1, Len(text)))
         IN [lines |-> (IF line # "" THEN <<line>> ELSE <<>>) \o rest.lines,
             buffer |-> rest.buffer]

\* data_received.emit for each line in turn
RECURSIVE emit_lines(_, _)
emit_lines(queue, lines) ==
    IF lines = <<>> THEN queue
    ELSE emit_lines(emit(queue, DataReceived(Head(lines))), Tail(lines))

\* One iteration of the loop of SerialReader.run in which the read returns chunk
run_read(chunk) ==
    /\ serial_reader = "running"
    /\ running
    /\ Len(received) + Len(chunk) <= MaxStream
    /\ LET r == split_lines(buffer \o chunk) IN
         /\ buffer' = r.buffer
         /\ emitted' = emitted \o r.lines
         /\ events' = emit_lines(events, r.lines)
    /\ received' = received \o chunk
    /\ UNCHANGED <<status, arduino, serial_reader, current_mode, PanelVars, last,
                   auto_session, applied, running, closing>>

RunRead == \E chunk \in Chunks : run_read(chunk)

NextFraming == RunRead

SpecFraming == Init /\ [][NextFraming]_vars

(***************************************************************************)
(* C1                                                                      *)
(***************************************************************************)
C1_Tokens == {"OFF", "LOADING", "READY", "TREATING", "UNLOADING", "DROPPING", "RETURNING"}

\* The claim's reading of a line: trimmed, then upper-cased
C1_Token(line) == Upper(Strip(line))

RECURSIVE C1_LastRecognized(_)
C1_LastRecognized(lines) ==
    IF lines = <<>> THEN "OFF"
    ELSE IF C1_Token(lines[Len(lines)]) \in C1_Tokens
    THEN C1_Token(lines[Len(lines)])
    ELSE C1_LastRecognized(SubSeq(lines, 1, Len(lines) - 1))

\* C1: after any sequence of lines applied through update_from_serial,
\* process_state is the last line that, trimmed and upper-cased, is one of the
\* seven process-state tokens; with no such line it is the initial value OFF.
C1_ProcessStateIsLastToken == status.process_state = C1_LastRecognized(applied)

\* A lower-case token with whitespace was applied, then an unrecognized line
C1_Witness ==
    /\ applied = <<"treating \r", "hello">>
    /\ status.process_state = "TREATING"

(***************************************************************************)
(* C10                                                                     *)
(***************************************************************************)
C10_Echoed(token) == applied' = Append(applied, token)

\* C10 as claimed: the echo of any command token leaves the status model as it was
C10_EchoIsNoOp ==
    [][\A token \in CommandTokens : C10_Echoed(token) => status' = status]_vars

\* C10 amended: the echo of every command token but "off" leaves the status model
\* as it was; the echo of "off" sets process_state to OFF and nothing else.
C10_EchoIsNoOpButOff ==
    [][\A token \in CommandTokens :
          C10_Echoed(token) =>
              IF token = "off"
              THEN status' = [status EXCEPT !.process_state = "OFF"]
              ELSE status' = status]_vars

\* Echoes were applied to a status model that had left its initial state
C10_Witness ==
    /\ applied = <<"LOADING", "e_stop">>
    /\ status.process_state = "LOADING"
    /\ ~status.estop_active

(***************************************************************************)
(* C2                                                                      *)
(***************************************************************************)
\* C2: in every reachable state the e-stop button is offered, trigger_estop can
\* be taken, and whenever it ran it passed exactly e_stop to send_command.
C2_EstopAlwaysEnabled ==
    /\ EstopOffered
    /\ ENABLED TriggerEstop
    /\ last.op = "trigger_estop" => last.issued = <<"e_stop">>

\* E-stop pressed in MANUAL mode, during TREATING, with an auto session started
C2_Witness ==
    /\ last.op = "trigger_estop"
    /\ last.written = <<"e_stop">>
    /\ current_mode = "MANUAL"
    /\ status.process_state = "TREATING"
    /\ auto_session

(***************************************************************************)
(* C3                                                                      *)
(***************************************************************************)
\* C3: trigger_estop invoked while not connected shows a notice to the operator
C3_EstopNotConnectedSurfaced ==
    (last.op = "trigger_estop" /\ ~last.conn) => last.notice # ""

(***************************************************************************)
(* C4                                                                      *)
(***************************************************************************)
\* C4: start_process_sm is never written while process_state is not OFF
\* (begin_auto_treatment does not change process_state, so the state after it
\* shows the process_state it ran in)
C4_StartOnlyWhenOff ==
    (last.op = "begin_auto_treatment" /\ last.written = <<"start_process_sm">>)
        => status.process_state = "OFF"

(***************************************************************************)
(* C5                                                                      *)
(***************************************************************************)
\* C5: once begin_auto_treatment has written start_process_sm, the auto session
\* is in progress and begin_auto_treatment is no longer offered
C5_BeginDisabledAfterStart ==
    (last.op = "begin_auto_treatment" /\ last.written = <<"start_process_sm">>)
        => (auto_session /\ ~BeginOffered)

(***************************************************************************)
(* C7                                                                      *)
(***************************************************************************)
JogActions == {"up", "load", "down"}

C7_ManualOps ==
    {"command_" \o a : a \in JogActions} \cup {"btn_plasma_on", "btn_plasma_off"}

C7_ManualOffered ==
    /\ \A a \in JogActions : JogOffered(a)
    /\ {"btn_plasma_on", "btn_plasma_off"} \subseteq Buttons

C7_AnyManualOffered ==
    \/ \E a \in JogActions : JogOffered(a)
    \/ {"btn_plasma_on", "btn_plasma_off"} \cap Buttons # {}

\* C7: the manual jog and plasma actions are offered exactly when the mode is
\* MANUAL and no auto session is in progress, and none of their commands is
\* written in AUTO mode or during an auto session
C7_ManualOnlyWithoutSession ==
    /\ (current_mode = "MANUAL" /\ ~auto_session) => C7_ManualOffered
    /\ C7_AnyManualOffered => (current_mode = "MANUAL" /\ ~auto_session)
    /\ (last.op \in C7_ManualOps /\ last.written # <<>>)
           => (current_mode = "MANUAL" /\ ~auto_session)

(***************************************************************************)
(* C8                                                                      *)
(***************************************************************************)
C8_Token(selection, action) ==
    CASE selection = "ALL" -> "all_" \o action
      [] selection \in {"1", "2", "3", "4"} -> selection \o "_" \o action

\* C8: a jog action run while connected is run in MANUAL mode and passes exactly
\* one token to send_command, all_<action> or <n>_<action> for the dropout radio
\* shown as chosen (written to the port unless the write raises); in AUTO mode
\* no jog action is offered.
C8_JogSendsSelectedToken ==
    /\ \A a \in JogActions :
          (last.op = "command_" \o a /\ last.conn) =>
              /\ current_mode = "MANUAL"
              /\ last.issued = <<C8_Token(dropout_checked, a)>>
              /\ \/ last.written = last.issued
                 \/ last.written = <<>> /\ ~arduino.connected
    /\ current_mode = "AUTO" => \A a \in JogActions : ~JogOffered(a)

\* Dropout 2 was chosen and Up pressed
C8_Witness ==
    /\ last.op = "command_up"
    /\ dropout_checked = "2"
    /\ last.written = <<"2_up">>

(***************************************************************************)
(* C9                                                                      *)
(***************************************************************************)
C9_LoadingApplied == last.op = "handle_serial_data" /\ last.arg = "LOADING"

C9_LoadingControls ==
    /\ "btn_loaded" \in Buttons
    /\ "btn_exit" \in Buttons
    /\ ~BeginOffered

C11_Carried ==
    {[line |-> "STATUS:{\"estop\": true}", estop |-> "true", plasma_on |-> "absent"],
     [line |-> "STATUS:{\"estop\": false}", estop |-> "false", plasma_on |-> "absent"],
     [line |-> "STATUS:{\"plasma_on\": true}", estop |-> "absent", plasma_on |-> "true"],
     [line |-> "STATUS:{\"estop\": false, \"plasma_on\": true}",
      estop |-> "false", plasma_on |-> "true"]}

C11_Field(carried, old) == IF carried = "absent" THEN old ELSE carried = "true"

\* C11: a structured payload sets estop_active and plasma_on to the booleans it
\* carries and leaves the value of an absent field (and process_state and the
\* dropout snapshots) unchanged
C11_PayloadAppliedFieldByField ==
    [][\A p \in C11_Carried :
          applied' = Append(applied, p.line) =>
              status' = [status EXCEPT
                            !.estop_active = C11_Field(p.estop, @),
                            !.plasma_on = C11_Field(p.plasma_on, @)]]_vars

(***************************************************************************)
(* C12                                                                     *)
(***************************************************************************)
\* C12: estop_active goes from true to false only in a handle_serial_data step
\* whose line, upper-cased, contains ESTOP NOT ACTIVE; every other event
\* leaves a set flag set
C12_EstopLatch ==
    [][(status.estop_active /\ ~status'.estop_active) =>
          /\ last'.op = "handle_serial_data"
          /\ Contains("ESTOP NOT ACTIVE", Upper(last'.arg))]_vars

\* Reset pressed while the e-stop is active, in state OFF: it stays active
C12_Witness ==
    /\ status.estop_active
    /\ status.process_state = "OFF"
    /\ last.op = "reset_system"
    /\ last.written = <<"reset">>

(***************************************************************************)
(* C13                                                                     *)
(***************************************************************************)
\* C13: a step that changes the operating mode is a mode_changed step that
\* passes nothing to send_command, writes nothing, and leaves the status model
\* and the serial interface as they were
C13_ModeChangeSendsNothing ==
    [][current_mode' # current_mode =>
          /\ last'.op = "mode_changed"
          /\ last'.issued = <<>>
          /\ last'.written = <<>>
          /\ status' = status
          /\ arduino' = arduino]_vars

\* MANUAL selected while connected, during TREATING with the e-stop active
C13_Witness ==
    /\ last.op = "mode_changed"
    /\ current_mode = "MANUAL"
    /\ last.conn
    /\ status.process_state = "TREATING"
    /\ status.estop_active

C15_OnlyStatusLinesChangeStatus ==
    [][status' # status => last'.op = "handle_serial_data"]_vars

\* plasma_on was written and the status model's plasma_on is still false
C15_Witness ==
    /\ last.op = "btn_plasma_on"
    /\ last.written = <<"plasma_on">>
    /\ ~status.plasma_on

(***************************************************************************)
(* C16                                                                     *)
(***************************************************************************)
\* C16: a handler that ran while connected was false wrote nothing to the
\* port, and while connected is false send_command returns False for every
\* token, writes nothing and leaves the interface as it is
C16_NotConnectedWritesNothing ==
    /\ ~last.conn => last.written = <<>>
    /\ ~arduino.connected =>
          \A command \in CommandTokens, raises \in BOOLEAN :
              LET r == send_command(arduino, command, raises) IN
              /\ r.written = <<>>
              /\ r.ret = FALSE
              /\ r.arduino = arduino

\* Reset pressed after the connection was lost, the port object still open
C16_Witness ==
    /\ last.op = "reset_system"
    /\ ~last.conn
    /\ arduino.serial_port = "open"
    /\ last.issued = <<"reset">>

(***************************************************************************)
(* C17                                                                     *)
(***************************************************************************)
\* C17: the handler in which connected went from true to false showed the
\* operator a notice
C17_LossSurfaced == (last.conn /\ ~arduino.connected) => last.notice # ""

(***************************************************************************)
(* C18                                                                     *)
(***************************************************************************)
C18_Tick == "request_status_update"

\* C18: a polling tick that ran while connected passed status then get_states
\* to send_command (both written, or a prefix of them when a write raised); one
\* that ran while not connected passed and wrote nothing; and a tick leaves
\* the mode, the panel, the selection and the status model as they were
C18_PollingOnlyWhenConnected ==
    /\ [](last.op = C18_Tick =>
            IF last.conn
            THEN /\ last.issued = <<"status", "get_states">>
                 /\ \/ last.written = last.issued
                    \/ ~arduino.connected /\ last.written \in {<<>>, <<"status">>}
            ELSE last.issued = <<>> /\ last.written = <<>>)
    /\ [][last'.op = C18_Tick => UNCHANGED <<status, current_mode, PanelVars>>]_vars

\* A tick in MANUAL mode during TREATING wrote both requests
C18_Witness ==
    /\ last.op = C18_Tick
    /\ last.written = <<"status", "get_states">>
    /\ current_mode = "MANUAL"
    /\ status.process_state = "TREATING"

(***************************************************************************)
(* C19                                                                     *)
(***************************************************************************)
\* The lines of the queued handle_serial_data calls, in queue order
C19_Queued ==
    LET data == SelectSeq(events, LAMBDA e : e.signal = "data_received") IN
    [i \in 1..Len(data) |-> data[i].line]

\* C19: the lines applied so far followed by the lines still queued are the
\* lines the reader emitted, in the reader's order; a step of the primary
\* thread applies exactly the next emitted line to the status model; and a
\* step of the reader thread leaves the status model as it is
C19_AppliedInReaderOrder ==
    /\ [](applied \o C19_Queued = emitted)
    /\ [][applied' # applied =>
             /\ Len(applied) < Len(emitted)
             /\ applied' = Append(applied, emitted[Len(applied) + 1])
             /\ status' = update_from_serial(status, emitted[Len(applied) + 1])]_vars
    /\ [][(serial_reader' # serial_reader \/ emitted' # emitted) => status' = status]_vars

\* The operator's e-stop ran between the application of ESTOP ACTIVE and that
\* of ESTOP NOT ACTIVE, which is still queued
C19_Witness ==
    /\ applied = <<"ESTOP ACTIVE">>
    /\ C19_Queued = <<"ESTOP NOT ACTIVE">>
    /\ last.op = "trigger_estop"
    /\ status.estop_active

(***************************************************************************)
(* C20                                                                     *)
(***************************************************************************)
\* C20: when the port has been closed by closeEvent there is no reader, or the
\* reader was told to stop and its thread has finished; and once stop() has
\* been called the reader thread eventually finishes
C20_ReaderStoppedBeforeClose ==
    /\ [](arduino.serial_port = "closed" =>
             \/ serial_reader = "None"
             \/ ~running /\ serial_reader = "finished")
    /\ (serial_reader # "None" /\ ~running) ~> (serial_reader = "finished")

\* The port is closed after a reader that was in use has finished
C20_Witness ==
    /\ arduino.serial_port = "closed"
    /\ serial_reader = "finished"
    /\ ~running
    /\ emitted # <<>>

(***************************************************************************)
(* C21                                                                     *)
(***************************************************************************)
\* The process states in which the claim allows each process-step handler
C21_Legal ==
    [btn_loaded |-> {"LOADING"}, btn_start |-> {"READY"},
     btn_unloaded |-> {"UNLOADING"}, exit_process |-> {"LOADING", "READY"}]

\* C21: whenever the handler that ran last was a process-step handler and it
\* wrote its command to the port, process_state is one the claim allows for it
C21_ProcessStepsGated ==
    \A op \in DOMAIN C21_Legal :
        (last.op = op /\ last.written # <<>>) => status.process_state \in C21_Legal[op]

(***************************************************************************)
(* C22                                                                     *)
(***************************************************************************)
\* C22: in AUTO mode the panel holds exactly the controls that
\* create_auto_mode_controls builds for the current process_state
C22_PanelIsForCurrentState ==
    current_mode = "AUTO" =>
        control_layout =
            create_auto_mode_controls(status.process_state, selected_dropout).layout

(***************************************************************************)
(* C24                                                                     *)
(***************************************************************************)
C24_Jogs == {"command_up", "command_load", "command_down"}

C24_Silent ==
    {"btn_plasma_on", "btn_plasma_off", "reset_system", "exit_process",
     "btn_loaded", "btn_start", "btn_unloaded"}

C24_Refused == last.notice = "Not Connected" /\ last.issued = <<>> /\ last.written = <<>>

C24_FailedSilently == last.notice = "" /\ last.written = <<>>

C25_SelectionIsShown ==
    /\ [](current_mode = "MANUAL" => selected_dropout = dropout_checked)
    /\ [][(current_mode = "AUTO" /\ current_mode' = "MANUAL") =>
             selected_dropout' = "ALL"]_vars
    /\ [][selected_dropout' # selected_dropout =>
             \/ last'.op = "dropout_selection_changed" /\ selected_dropout' = last'.arg
             \/ last'.op = "mode_changed" /\ current_mode' = "MANUAL"]_vars
    /\ [](\A action \in JogActions :
             (last.op = "command_" \o action /\ last.issued # <<>>) =>
                 last.issued = <<JogCommand(dropout_checked, action)>>)

\* In MANUAL mode with the ALL radio checked, Up wrote all_up
C25_Witness ==
    /\ last.op = "command_up"
    /\ last.written = <<"all_up">>
    /\ current_mode = "MANUAL"
    /\ dropout_checked = "ALL"

(***************************************************************************)
(* C23                                                                     *)
(***************************************************************************)
\* The claim's priority, applied to the upper-cased line
C23_Estop(line, old) ==
    IF Contains("ESTOP ACTIVE", Upper(line)) THEN TRUE
    ELSE IF Contains("ESTOP NOT ACTIVE", Upper(line)) THEN FALSE
    ELSE IF Contains("ESTOP", Upper(line)) THEN TRUE
    ELSE old

\* C23: applying a line that is a process-state token leaves estop_active as it
\* was; applying any other line sets estop_active by the priority ESTOP ACTIVE,
\* ESTOP NOT ACTIVE, ESTOP, else unchanged, and leaves process_state as it was
C23_EstopPriority ==
    [][\A line \in StatusLines :
          applied' = Append(applied, line) =>
              IF C1_Token(line) \in C1_Tokens
              THEN status'.estop_active = status.estop_active
              ELSE /\ status'.estop_active = C23_Estop(line, status.estop_active)
                   /\ status'.process_state = status.process_state]_vars

\* A line carrying both phrases was applied to a cleared flag in state LOADING
C23_Witness ==
    /\ applied = <<"LOADING", "ESTOP NOT ACTIVE (WAS ESTOP ACTIVE)">>
    /\ status.estop_active
    /\ status.process_state = "LOADING"

(***************************************************************************)
(* C26                                                                     *)
(***************************************************************************)
\* The newline-terminated segments of text from position start on, in order,
\* each trimmed, the empty ones dropped
RECURSIVE C26_Segments(_, _, _)
C26_Segments(text, i, start) ==
    IF i > Len(text) THEN <<>>
    ELSE IF CharAt(text, i) = "\n"
    THEN LET segment == Strip(SubSeq(text, start, i - 1)) IN
         (IF segment = "" THEN <<>> ELSE <<segment>>) \o C26_Segments(text, i + 1, i + 1)
    ELSE C26_Segments(text, i + 1, start)

\* What follows the last newline of text
C26_Unterminated(text) ==
    LET newlines == {i \in 1..Len(text) : CharAt(text, i) = "\n"}
        after == IF newlines = {} THEN 1
                 ELSE 1 + CHOOSE i \in newlines : \A j \in newlines : j <= i
    IN SubSeq(text, after, Len(text))

\* C26: however the text was split into reads, the lines emitted and queued for
\* the primary thread are the trimmed non-empty newline-terminated segments of
\* the text received, in order, and the buffer holds what follows the last
\* newline
C26_FramedOnNewlines ==
    /\ emitted = C26_Segments(received, 1, 1)
    /\ [i \in 1..Len(events) |-> events[i].line] = emitted
    /\ buffer = C26_Unterminated(received)

\* A line was emitted trimmed and an unterminated segment waits in the buffer
C26_Witness ==
    /\ received = " A\nB"
    /\ emitted = <<"A">>
    /\ buffer = "B"

====
